---- MODULE Spec2Model ----
(***************************************************************************)
(* Turn strategies of controlflow (orchestration/turn_strategies.py): the  *)
(* policy object with its two mutable fields, the two control tools bound  *)
(* to it, the six policy variants, and the turn loop that drives a policy. *)
(***************************************************************************)
EXTENDS Integers, Sequences, FiniteSets, TLC

(* ---------------------------------------------------------------- bounds *)

\* largest number of pending tasks an agent's task list holds
MaxTasks == 1
\* the turn loop stops beginning new turns after this many
MaxTurns == 4
\* the number of messages saved to the history, over all threads
MaxStored == 3
\* the longest tool-call list of a message, a snapshot or a delta
MaxCalls == 2
\* the batch size of load_messages_to_token_limit (limit=50 in the source),
\* scaled to the stored messages
BatchSize == 2

(* ---------------------------------------------------------------- agents *)

Agents == {"A", "B", "C"}
None == "None"

\* Agent.id of each agent, and one id that belongs to no agent
id(a) == CASE a = "A" -> "id_A" [] a = "B" -> "id_B" [] OTHER -> "id_C"
AgentIds == {id(a) : a \in Agents} \cup {"id_unknown"}

\* Agent.name of each agent: names are not unique, A and B share theirs
name(a) == IF a = "C" THEN "carol" ELSE "alex"

Variants == {"Single", "Popcorn", "Random", "RoundRobin", "MostBusy", "Moderated"}

\* An available_agents dict: its keys in iteration order (no key twice).
\* The value of key a is a task list of pending[a] tasks.
AvailableAgents ==
    UNION {{av \in [1..n -> Agents] : \A i, j \in 1..n : i # j => av[i] # av[j]} :
           n \in 0..Cardinality(Agents)}

keys(av) == {av[i] : i \in DOMAIN av}

\* the result of a call that raised instead of returning
Raises == "raises"

VARIABLES
    variant,      \* the concrete TurnStrategy class of the policy object
    moderator,    \* Moderated.moderator (None for the other classes)
    pending,      \* len(available_agents[agent]) for each agent
    end_turn,     \* TurnStrategy.end_turn
    next_agent,   \* TurnStrategy.next_agent
    tools,        \* the tool list the latest get_tools returned
    last,         \* the latest call on the policy or its tools, with its result
    phase,        \* the turn controller's state
    actor,        \* the current actor of the turn loop
    available,    \* the available_agents mapping of the session
    actors        \* the actors of the turns begun so far, in order

VARIABLES
    backend,      \* the History class in use
    history,      \* the stored messages of each thread, in the order appended
    loaded,       \* the latest load_messages call, with its result
    loading,      \* the frame of load_messages_to_token_limit
    derived       \* the latest derivation from an event, with its result

vars == <<variant, moderator, pending, end_turn, next_agent, tools, last,
          phase, actor, available, actors,
          backend, history, loaded, loading, derived>>

policy == <<end_turn, next_agent>>
config == <<variant, moderator, pending>>
loop == <<phase, actor, available, actors>>
strategy == <<config, policy, tools, last, loop>>
store == <<backend, history, loaded, loading>>

(* ----------------------------------------------------- the policy's code *)

\* begin_turn that forgets to clear next_agent
begin_turn_keeps_next(et, na) == [end_turn |-> FALSE, next_agent |-> na]

\* TurnStrategy.begin_turn: the policy state after the call
begin_turn(et, na) == [end_turn |-> FALSE, next_agent |-> None]

\* TurnStrategy.should_end_turn
should_end_turn(et) == et

\* should_end_session without Single's override
should_end_session_base(v, et) == FALSE

\* should_end_session that ends the session with the turn in every class
should_end_session_all(v, et) == et

\* TurnStrategy.should_end_session, and Single's override
should_end_session(v, et) == IF v = "Single" THEN et ELSE FALSE

\* an end-turn tool that also drops the delegation
end_turn_tool_clears(et, na) == [end_turn |-> TRUE, next_agent |-> None]

\* the tool create_end_turn_tool returns, as the policy state after a call
end_turn_tool(et, na) == [end_turn |-> TRUE, next_agent |-> na]

EndTurnTool == [kind |-> "end_turn", available_agents |-> <<>>]
DelegateTool(av) == [kind |-> "delegate_to_agent", available_agents |-> av]

\* next((a for a in available_agents.keys() if a.id == agent_id), None)
RECURSIVE FindById(_, _, _)
FindById(av, agent_id, i) ==
    IF i > Len(av) THEN None
    ELSE IF id(av[i]) = agent_id THEN av[i]
    ELSE FindById(av, agent_id, i + 1)

\* delegate_to_agent whose count check is off by one
delegate_outcome_lt(av, agent_id) ==
    IF Len(av) < 1 THEN "Unsupported"
    ELSE IF FindById(av, agent_id, 1) = None THEN "AgentNotFound"
    ELSE "Delegated"

\* delegate_to_agent: how the call ends. "Unsupported" is the refusal string
\* the call returns, "AgentNotFound" the ValueError it raises.
delegate_outcome(av, agent_id) ==
    IF Len(av) <= 1 THEN "Unsupported"
    ELSE IF FindById(av, agent_id, 1) = None THEN "AgentNotFound"
    ELSE "Delegated"

\* delegate_to_agent that ends the turn before it has resolved the agent
delegate_to_agent_early(av, agent_id, et, na) ==
    IF delegate_outcome(av, agent_id) = "Unsupported"
    THEN [end_turn |-> et, next_agent |-> na]
    ELSE [end_turn |-> TRUE, next_agent |-> FindById(av, agent_id, 1)]

\* delegate_to_agent: the policy state after the call
delegate_to_agent(av, agent_id, et, na) ==
    IF delegate_outcome(av, agent_id) = "Delegated"
    THEN [end_turn |-> TRUE, next_agent |-> FindById(av, agent_id, 1)]
    ELSE [end_turn |-> et, next_agent |-> na]

\* get_tools of each class
get_tools_of(v, mod, cur, av) ==
    CASE v = "Popcorn" ->
            IF Len(av) > 1 THEN <<DelegateTool(av)>> ELSE <<EndTurnTool>>
      [] v = "Moderated" ->
            IF cur = mod THEN <<DelegateTool(av)>> ELSE <<EndTurnTool>>
      [] OTHER -> <<EndTurnTool>>

\* Single.get_next_agent
Single_get_next_agent(cur, av) == cur

\* Popcorn.get_next_agent that honors a delegation to an unavailable agent
Popcorn_get_next_agent_any(na, av) ==
    IF na # None THEN na
    ELSE IF av = <<>> THEN Raises
    ELSE av[1]

\* Popcorn.get_next_agent
Popcorn_get_next_agent(na, av) ==
    IF na # None /\ na \in keys(av) THEN na
    ELSE IF av = <<>> THEN Raises
    ELSE av[1]

\* Random.get_next_agent: every outcome of random.choice
Random_get_next_agent(av) == IF av = <<>> THEN {Raises} ELSE keys(av)

\* list.index
index(av, a) == CHOOSE i \in DOMAIN av : av[i] = a /\ \A j \in 1..(i - 1) : av[j] # a

\* RoundRobin.get_next_agent without the modulo: the last agent has no successor
RoundRobin_get_next_agent_nowrap(cur, av) ==
    IF cur \notin keys(av)
    THEN IF av = <<>> THEN Raises ELSE av[1]
    ELSE IF index(av, cur) = Len(av) THEN Raises ELSE av[index(av, cur) + 1]

\* RoundRobin.get_next_agent
RoundRobin_get_next_agent(cur, av) ==
    IF cur \notin keys(av)
    THEN IF av = <<>> THEN Raises ELSE av[1]
    ELSE av[(((index(av, cur) - 1) + 1) % Len(av)) + 1]

\* max that keeps the last of several largest elements
RECURSIVE max_by_tasks_last(_, _, _, _)
max_by_tasks_last(av, pend, i, best) ==
    IF i > Len(av) THEN best
    ELSE IF pend[av[i]] >= pend[best] THEN max_by_tasks_last(av, pend, i + 1, av[i])
    ELSE max_by_tasks_last(av, pend, i + 1, best)

\* max(iterable, key=...): the first element whose key is largest
RECURSIVE max_by_tasks(_, _, _, _)
max_by_tasks(av, pend, i, best) ==
    IF i > Len(av) THEN best
    ELSE IF pend[av[i]] > pend[best] THEN max_by_tasks(av, pend, i + 1, av[i])
    ELSE max_by_tasks(av, pend, i + 1, best)

\* MostBusy.get_next_agent
MostBusy_get_next_agent(av, pend) ==
    IF av = <<>> THEN Raises ELSE max_by_tasks(av, pend, 2, av[1])

\* Moderated.get_next_agent that honors a delegation after any agent's turn
Moderated_get_next_agent_any(mod, cur, na, av) ==
    IF na \in keys(av) THEN na ELSE mod

\* Moderated.get_next_agent
Moderated_get_next_agent(mod, cur, na, av) ==
    IF cur = mod
    THEN IF na \in keys(av) THEN na ELSE mod
    ELSE mod

\* get_next_agent of each class: the set of agents the call can return
get_next_agent_of(v, mod, pend, na, cur, av) ==
    CASE v = "Single" -> {Single_get_next_agent(cur, av)}
      [] v = "Popcorn" -> {Popcorn_get_next_agent(na, av)}
      [] v = "Random" -> Random_get_next_agent(av)
      [] v = "RoundRobin" -> {RoundRobin_get_next_agent(cur, av)}
      [] v = "MostBusy" -> {MostBusy_get_next_agent(av, pend)}
      [] OTHER -> {Moderated_get_next_agent(mod, cur, na, av)}

(* ------------------------------------------------- the history's code *)

Threads == {"t1", "t2"}
Backends == {"InMemoryHistory", "FileHistory"}

\* an optional argument: <<>> for None, <<v>> for the value v
Absent == <<>>
Some(v) == <<v>>

\* the k messages created from clock value n on: each has a later timestamp
\* than every message created before it
NewMessages(n, k) == [i \in 1..k |-> [timestamp |-> n + i, content |-> n + i]]

\* msg.model_dump(mode="json"): the timestamp becomes its ISO string
model_dump(m) == [timestamp |-> <<"iso", m.timestamp>>, content |-> m.content]

\* Message.model_validate(msg): the ISO string is parsed back
model_validate(j) == [timestamp |-> j.timestamp[2], content |-> j.content]

\* reversed(messages)
Reversed(msgs) == [i \in 1..Len(msgs) |-> msgs[Len(msgs) + 1 - i]]

\* before is None or msg.timestamp < before
IsBefore(m, before) == before = Absent \/ m.timestamp < before[1]

\* after is None or msg.timestamp > after
IsAfter(m, after) == after = Absent \/ m.timestamp > after[1]

\* i < (limit or math.inf), i counting from 0: None and 0 give math.inf
BelowLimit(i, limit) == limit = Absent \/ limit[1] = 0 \/ i < limit[1]

\* the list comprehension of InMemoryHistory.load_messages from position i on
RECURSIVE filtered_messages(_, _, _, _, _)
filtered_messages(rev, i, limit, before, after) ==
    IF i > Len(rev) THEN <<>>
    ELSE (IF IsBefore(rev[i], before) /\ IsAfter(rev[i], after)
             /\ BelowLimit(i - 1, limit)
          THEN <<rev[i]>> ELSE <<>>)
         \o filtered_messages(rev, i + 1, limit, before, after)

Returned(v) == [raised |-> FALSE, value |-> v]
Raised == [raised |-> TRUE, value |-> <<>>]

\* InMemoryHistory.load_messages
InMemoryHistory_load_messages(msgs, limit, before, after) ==
    Returned(Reversed(filtered_messages(Reversed(msgs), 1, limit, before, after)))

\* math.inf as the right operand of "or": a non-zero float is true
MathInfIsTrue == TRUE

\* the for loop of FileHistory.load_messages from position i on: in
\* "len(messages) >= limit or math.inf" the comparison with a limit of None
\* raises TypeError, and otherwise the condition is true and the loop breaks
RECURSIVE scan_file(_, _, _, _, _, _)
scan_file(rev, i, messages, limit, before, after) ==
    IF i > Len(rev) THEN Returned(Reversed(messages))
    ELSE LET message == model_validate(rev[i])
         IN IF IsBefore(message, before) /\ IsAfter(message, after)
            THEN IF limit = Absent THEN Raised
                 ELSE IF Len(messages) + 1 >= limit[1] \/ MathInfIsTrue
                      THEN Returned(Reversed(Append(messages, message)))
                      ELSE scan_file(rev, i + 1, Append(messages, message),
                                     limit, before, after)
            ELSE scan_file(rev, i + 1, messages, limit, before, after)

\* FileHistory.load_messages: a thread without a file loads as an empty one
FileHistory_load_messages(file, limit, before, after) ==
    scan_file(Reversed(file), 1, <<>>, limit, before, after)

\* load_messages of the class in use
load_messages(b, stored, limit, before, after) ==
    IF b = "InMemoryHistory"
    THEN InMemoryHistory_load_messages(stored, limit, before, after)
    ELSE FileHistory_load_messages(stored, limit, before, after)

\* save_messages of the class in use: the thread's list after the call
save_messages(b, stored, messages) ==
    IF b = "InMemoryHistory"
    THEN stored \o messages
    ELSE stored \o [i \in 1..Len(messages) |-> model_dump(messages[i])]

\* trim_messages(messages, model=model): a model of None has no budget and
\* leaves the list as it is; otherwise the newest messages that fit the
\* budget are kept, a message counting one token
trim_messages(messages, model) ==
    IF model = Absent \/ Len(messages) <= model[1] THEN messages
    ELSE SubSeq(messages, Len(messages) - model[1] + 1, Len(messages))

HistoryCall(op, thread_id, limit, before, after, result) ==
    [op |-> op, thread_id |-> thread_id, limit |-> limit, before |-> before,
     after |-> after, result |-> result]

NoHistoryCall == HistoryCall("none", "t1", Absent, Absent, Absent, Returned(<<>>))

Frame(pc, thread_id, model, messages, trim) ==
    [pc |-> pc, thread_id |-> thread_id, model |-> model, messages |-> messages,
     trim |-> trim]

NotLoading == Frame("idle", "t1", Absent, <<>>, <<>>)

\* no history is in use
NoStore ==
    /\ backend = "InMemoryHistory"
    /\ history = [t \in Threads |-> <<>>]
    /\ loaded = NoHistoryCall
    /\ loading = NotLoading

NoDerivation == [op |-> "none"]


(* --------------------------------------------------- the events' code *)

\* a provider-ready message: role is that of HumanMessage ("user"),
\* AIMessage ("assistant") or ToolMessage ("tool")
Message(role, content, nm, tool_call_id) ==
    [role |-> role, content |-> content, name |-> nm, tool_call_id |-> tool_call_id]

\* OrchestratorMessage.to_messages: the content is "(prefix)\n\ncontent"
OrchestratorMessage_to_messages(prefix, content, nm) ==
    <<Message("user", [prefix |-> prefix, content |-> content], nm, None)>>

\* AgentMessage.ai_message, with the name _finalize has set
ai_message(event) == Message("assistant", event.content, name(event.agent), None)

\* AgentMessage.to_messages for the agent of the compile context
AgentMessage_to_messages(event, viewer) ==
    IF name(event.agent) = name(viewer) THEN <<ai_message(event)>>
    ELSE IF event.content # ""
    THEN OrchestratorMessage_to_messages(
             [text |-> "The following message was posted by Agent .. with ID ..",
              agent_name |-> name(event.agent), agent_id |-> id(event.agent)],
             event.content, name(event.agent))
    ELSE <<>>

\* ToolResult.to_messages for the agent of the compile context
ToolResult_to_messages(event, viewer) ==
    IF name(event.agent) = name(viewer)
    THEN <<Message("tool", event.str_result, name(event.agent), event.tool_call.id)>>
    ELSE OrchestratorMessage_to_messages(
             [text |-> "Agent .. with ID .. made a tool call: ... The tool.. produced this result:",
              agent_name |-> name(event.agent), agent_id |-> id(event.agent),
              tool_call |-> event.tool_call,
              outcome |-> IF event.is_error THEN " failed and" ELSE " "],
             event.str_result, name(event.agent))

\* next((t for t in tools if t.name == call_name), None), from position i on
RECURSIVE find_tool(_, _, _)
find_tool(tool_list, call_name, i) ==
    IF i > Len(tool_list) THEN None
    ELSE IF tool_list[i] = call_name THEN tool_list[i]
    ELSE find_tool(tool_list, call_name, i + 1)

\* the for loop of AgentMessage.to_tool_calls from position i on
RECURSIVE to_tool_calls_from(_, _, _, _)
to_tool_calls_from(agent, calls, tool_list, i) ==
    IF i > Len(calls) THEN <<>>
    ELSE LET tool == find_tool(tool_list, calls[i].name, 1)
         IN (IF tool # None
             THEN <<[agent |-> agent, tool_call |-> calls[i], tool |-> tool,
                     args |-> calls[i].args]>>
             ELSE <<>>)
            \o to_tool_calls_from(agent, calls, tool_list, i + 1)

\* AgentMessage.to_tool_calls
to_tool_calls(agent, tool_calls, invalid_tool_calls, tool_list) ==
    Returned(to_tool_calls_from(agent, tool_calls \o invalid_tool_calls, tool_list, 1))

\* the snapshot call at the index of a delta's chunk (indices count from 0)
call_snapshot_at(snapshot, chunk_index) ==
    IF chunk_index + 1 \in DOMAIN snapshot THEN Some(snapshot[chunk_index + 1])
    ELSE Absent

\* the for loop of AgentMessageDelta.to_tool_call_deltas from position i on.
\* Without a snapshot call, call_snapshot.get raises AttributeError as soon as
\* the generator meets a tool; with one and no tool of its name,
\* AgentToolCallDelta(tool=None) fails the validation of its field tool: Tool.
RECURSIVE to_tool_call_deltas_from(_, _, _, _, _, _)
to_tool_call_deltas_from(agent, chunks, snapshot, tool_list, i, deltas) ==
    IF i > Len(chunks) THEN Returned(deltas)
    ELSE LET call_snapshot == call_snapshot_at(snapshot, chunks[i].index)
         IN IF call_snapshot = Absent
            THEN IF tool_list # <<>> THEN Raised
                 ELSE to_tool_call_deltas_from(agent, chunks, snapshot, tool_list,
                                               i + 1, deltas)
            ELSE LET tool == find_tool(tool_list, call_snapshot[1].name, 1)
                 IN IF tool = None THEN Raised
                    ELSE to_tool_call_deltas_from(
                             agent, chunks, snapshot, tool_list, i + 1,
                             Append(deltas,
                                    [agent |-> agent, delta |-> chunks[i],
                                     snapshot |-> call_snapshot[1], tool |-> tool,
                                     args |-> call_snapshot[1].args]))

\* AgentMessageDelta.to_tool_call_deltas
to_tool_call_deltas(agent, chunks, snapshot, tool_list) ==
    to_tool_call_deltas_from(agent, chunks, snapshot, tool_list, 1, <<>>)

(* ------------------------------------------------------------ the calls *)

Call(op, cur, av, arg, result) ==
    [op |-> op, cur |-> cur, available_agents |-> av, arg |-> arg, result |-> result]

NoCall == Call("construct", None, <<>>, None, None)

\* the task lists: MostBusy is the one class that reads them (line 152), so
\* they vary for it and hold one task each for the other classes
TaskLists(v) ==
    IF v = "MostBusy" THEN [Agents -> 0..MaxTasks] ELSE {[a \in Agents |-> 1]}

\* The policy object is constructed with any field values, a Moderated one
\* with its moderator; no tool exists yet and no session runs.
Init ==
    /\ variant \in Variants
    /\ moderator \in IF variant = "Moderated" THEN Agents ELSE {None}
    /\ pending \in TaskLists(variant)
    /\ end_turn \in BOOLEAN
    /\ next_agent \in Agents \cup {None}
    /\ tools = <<>>
    /\ last = NoCall
    /\ phase = "Idle"
    /\ actor = None
    /\ available = <<>>
    /\ actors = <<>>
    /\ NoStore
    /\ derived = NoDerivation

\* the policy object is called directly: no session has started
Direct == phase = "Idle" /\ actors = <<>>

\* a control tool may be invoked: directly, or by the actor in its turn
MayInvoke == Direct \/ phase = "TurnInProgress"

\* the controller leaves TurnInProgress once should_end_turn() is true
PhaseAfterTool(et) ==
    IF phase = "TurnInProgress" /\ should_end_turn(et) THEN "TurnEnded" ELSE phase

CallBeginTurn ==
    /\ Direct
    /\ end_turn' = begin_turn(end_turn, next_agent).end_turn
    /\ next_agent' = begin_turn(end_turn, next_agent).next_agent
    /\ last' = Call("begin_turn", None, <<>>, None, None)
    /\ UNCHANGED <<store, derived, config, tools, loop>>

CallShouldEndTurn ==
    /\ Direct
    /\ last' = Call("should_end_turn", None, <<>>, None, should_end_turn(end_turn))
    /\ UNCHANGED <<store, derived, config, policy, tools, loop>>

CallShouldEndSession ==
    /\ Direct
    /\ last' = Call("should_end_session", None, <<>>, None,
                    should_end_session(variant, end_turn))
    /\ UNCHANGED <<store, derived, config, policy, tools, loop>>

CallGetTools ==
    /\ Direct
    /\ \E cur \in Agents, av \in AvailableAgents :
          /\ tools' = get_tools_of(variant, moderator, cur, av)
          /\ last' = Call("get_tools", cur, av, None, None)
    /\ UNCHANGED <<store, derived, config, policy, loop>>

CallGetNextAgent ==
    /\ Direct
    /\ \E cur \in Agents, av \in AvailableAgents :
          \E r \in get_next_agent_of(variant, moderator, pending, next_agent, cur, av) :
             last' = Call("get_next_agent", cur, av, None, r)
    /\ UNCHANGED <<store, derived, config, policy, tools, loop>>

InvokeEndTurn ==
    /\ MayInvoke
    /\ \E i \in DOMAIN tools :
          /\ tools[i].kind = "end_turn"
          /\ end_turn' = end_turn_tool(end_turn, next_agent).end_turn
          /\ next_agent' = end_turn_tool(end_turn, next_agent).next_agent
          /\ last' = Call("end_turn", None, <<>>, None, "returns")
    /\ phase' = PhaseAfterTool(end_turn')
    /\ UNCHANGED <<store, derived, config, tools, actor, available, actors>>

InvokeDelegate ==
    /\ MayInvoke
    /\ \E i \in DOMAIN tools, agent_id \in AgentIds :
          /\ tools[i].kind = "delegate_to_agent"
          /\ LET av == tools[i].available_agents
                 s == delegate_to_agent(av, agent_id, end_turn, next_agent)
             IN /\ end_turn' = s.end_turn
                /\ next_agent' = s.next_agent
                /\ last' = Call("delegate_to_agent", None, av, agent_id,
                                delegate_outcome(av, agent_id))
    /\ phase' = PhaseAfterTool(end_turn')
    /\ UNCHANGED <<store, derived, config, tools, actor, available, actors>>

(* -------------------------------------------------------- the turn loop *)

\* Idle -> TurnInProgress: begin_turn(), and the actor is handed its tools
BeginTurnOf(a, av) ==
    /\ end_turn' = begin_turn(end_turn, next_agent).end_turn
    /\ next_agent' = begin_turn(end_turn, next_agent).next_agent
    /\ tools' = get_tools_of(variant, moderator, a, av)
    /\ actor' = a
    /\ available' = av
    /\ actors' = Append(actors, a)
    /\ phase' = "TurnInProgress"
    /\ last' = Call("begin_turn", None, <<>>, None, None)
    /\ UNCHANGED <<store, derived, config>>

\* the first turn: the caller supplies the actor and the available agents
StartSession ==
    /\ phase = "Idle"
    /\ actors = <<>>
    /\ \E av \in AvailableAgents \ {<<>>} : \E a \in keys(av) : BeginTurnOf(a, av)

\* a later turn: the actor is the result of the previous get_next_agent
StartTurn ==
    /\ phase = "Idle"
    /\ actors # <<>>
    /\ Len(actors) < MaxTurns
    /\ BeginTurnOf(actor, available)

\* TurnEnded: get_next_agent, then should_end_session decides
FinishTurn ==
    /\ phase = "TurnEnded"
    /\ \E r \in get_next_agent_of(variant, moderator, pending, next_agent,
                                  actor, available) :
          /\ last' = Call("get_next_agent", actor, available, None, r)
          /\ IF should_end_session(variant, end_turn)
             THEN phase' = "SessionEnded" /\ actor' = actor
             ELSE phase' = "Idle" /\ actor' = r
    /\ UNCHANGED <<store, derived, config, policy, tools, available, actors>>

\* the external stop signal
Stop ==
    /\ phase = "TurnEnded"
    /\ phase' = "SessionEnded"
    /\ last' = Call("stop", None, <<>>, None, None)
    /\ UNCHANGED <<store, derived, config, policy, tools, actor, available, actors>>

Next ==
    \/ CallBeginTurn
    \/ CallShouldEndTurn
    \/ CallShouldEndSession
    \/ CallGetTools
    \/ CallGetNextAgent
    \/ InvokeEndTurn
    \/ InvokeDelegate
    \/ StartSession
    \/ StartTurn
    \/ FinishTurn
    \/ Stop

Spec == Init /\ [][Next]_vars

(* ----------------------------------------------------- the history store *)

\* no policy object is in use
NoStrategy ==
    /\ variant = "Single"
    /\ moderator = None
    /\ pending = [a \in Agents |-> 1]
    /\ end_turn = FALSE
    /\ next_agent = None
    /\ tools = <<>>
    /\ last = NoCall
    /\ phase = "Idle"
    /\ actor = None
    /\ available = <<>>
    /\ actors = <<>>

Limits == {Absent} \cup {Some(n) : n \in 1..BatchSize}
Times == {Absent} \cup {Some(t) : t \in 1..MaxStored}
Models == {Absent} \cup {Some(n) : n \in 1..MaxStored}

\* the messages created so far
Created == Len(history["t1"]) + Len(history["t2"])

HistoryInit ==
    /\ NoStrategy
    /\ derived = NoDerivation
    /\ backend \in Backends
    /\ history = [t \in Threads |-> <<>>]
    /\ loaded = NoHistoryCall
    /\ loading = NotLoading

SaveMessages ==
    /\ loading.pc = "idle"
    /\ \E thread_id \in Threads, k \in 1..2 :
          /\ Created + k <= MaxStored
          /\ history' = [history EXCEPT ![thread_id] =
                            save_messages(backend, @, NewMessages(Created, k))]
          /\ loaded' = HistoryCall("save_messages", thread_id, Absent, Absent,
                                   Absent, Returned(<<>>))
    /\ UNCHANGED <<strategy, derived, backend, loading>>

LoadMessages ==
    /\ loading.pc = "idle"
    /\ \E thread_id \in Threads, limit \in Limits, before \in Times, after \in Times :
          loaded' = HistoryCall("load_messages", thread_id, limit, before, after,
                                load_messages(backend, history[thread_id],
                                              limit, before, after))
    /\ UNCHANGED <<strategy, derived, backend, history, loading>>

\* load_messages_to_token_limit is called: messages = []
LoadToTokenLimit ==
    /\ loading.pc = "idle"
    /\ \E thread_id \in Threads, model \in Models :
          loading' = Frame("test", thread_id, model, <<>>, <<>>)
    /\ loaded' = NoHistoryCall
    /\ UNCHANGED <<strategy, derived, backend, history>>

\* the while condition: messages == (trim := trim_messages(messages, model)),
\* and the return of trim once it is false
LoopTest ==
    /\ loading.pc = "test"
    /\ LET trim == trim_messages(loading.messages, loading.model)
       IN loading' = [loading EXCEPT
                         !.trim = trim,
                         !.pc = IF loading.messages = trim THEN "load" ELSE "returned"]
    /\ UNCHANGED <<strategy, derived, backend, history, loaded>>

\* the loop body: one batch is loaded and messages.extend(batch)
LoopLoad ==
    /\ loading.pc = "load"
    /\ LET messages == loading.messages
           before == IF messages = <<>> THEN Absent
                     ELSE Some(messages[Len(messages)].timestamp)
           batch == load_messages(backend, history[loading.thread_id],
                                  Some(BatchSize), before, Absent)
       IN /\ loaded' = HistoryCall("load_messages", loading.thread_id,
                                   Some(BatchSize), before, Absent, batch)
          /\ loading' = [loading EXCEPT !.messages = messages \o batch.value,
                                        !.pc = "test"]
    /\ UNCHANGED <<strategy, derived, backend, history>>

HistoryNext ==
    \/ SaveMessages
    \/ LoadMessages
    \/ LoadToTokenLimit
    \/ LoopTest
    \/ LoopLoad

\* a call of load_messages_to_token_limit that has started keeps running
HistorySpec ==
    /\ HistoryInit
    /\ [][HistoryNext]_vars
    /\ WF_vars(LoopTest)
    /\ WF_vars(LoopLoad)

(* ------------------------------------------------------------ the events *)

Contents == {"", "hello"}

\* the tools declared for an agent, by name; no tool is named "h"
ToolLists == {<<>>, <<"f">>, <<"f", "g">>}
CallNames == {"f", "h"}

\* tool-call records: the i-th call of a list has the id i
ToolCallLists ==
    UNION {[1..n -> [id : 1..MaxCalls, name : CallNames, args : {"args"}]] :
           n \in 0..MaxCalls}
ToolCalls == {calls \in ToolCallLists : \A i \in DOMAIN calls : calls[i].id = i}

\* the tool_call_chunks of a delta: each carries the index of its call
ChunkLists ==
    UNION {[1..n -> [index : 0..MaxCalls, args : {"ar"}]] : n \in 0..MaxCalls}

EventInit ==
    /\ NoStrategy
    /\ NoStore
    /\ derived = NoDerivation

CompileAgentMessage ==
    /\ \E agent \in Agents, viewer \in Agents, content \in Contents :
          LET event == [agent |-> agent, content |-> content]
          IN derived' = [op |-> "AgentMessage.to_messages", event |-> event,
                         viewer |-> viewer,
                         result |-> AgentMessage_to_messages(event, viewer)]
    /\ UNCHANGED <<strategy, store>>

CompileToolResult ==
    /\ \E agent \in Agents, viewer \in Agents, is_error \in BOOLEAN,
          call_name \in CallNames :
          LET event == [agent |-> agent,
                        tool_call |-> [id |-> 1, name |-> call_name, args |-> "args"],
                        str_result |-> "result", is_error |-> is_error]
          IN derived' = [op |-> "ToolResult.to_messages", event |-> event,
                         viewer |-> viewer,
                         result |-> ToolResult_to_messages(event, viewer)]
    /\ UNCHANGED <<strategy, store>>

DeriveToolCalls ==
    /\ \E agent \in Agents, tool_calls \in ToolCalls, invalid_tool_calls \in ToolCalls,
          tool_list \in ToolLists :
          /\ Len(tool_calls) + Len(invalid_tool_calls) <= MaxCalls
          /\ derived' = [op |-> "to_tool_calls", agent |-> agent,
                         calls |-> tool_calls \o invalid_tool_calls,
                         tools |-> tool_list,
                         result |-> to_tool_calls(agent, tool_calls,
                                                  invalid_tool_calls, tool_list)]
    /\ UNCHANGED <<strategy, store>>

DeriveToolCallDeltas ==
    /\ \E agent \in Agents, chunks \in ChunkLists, snapshot \in ToolCalls,
          tool_list \in ToolLists :
          derived' = [op |-> "to_tool_call_deltas", agent |-> agent,
                      chunks |-> chunks, snapshot |-> snapshot, tools |-> tool_list,
                      result |-> to_tool_call_deltas(agent, chunks, snapshot,
                                                     tool_list)]
    /\ UNCHANGED <<strategy, store>>

EventNext ==
    \/ CompileAgentMessage
    \/ CompileToolResult
    \/ DeriveToolCalls
    \/ DeriveToolCallDeltas

EventSpec == EventInit /\ [][EventNext]_vars

(* ----------------------------------------------------------- properties *)

\* the latest call is a get_next_agent over a non-empty mapping
NextAgentCalled == last.op = "get_next_agent" /\ last.available_agents # <<>>

\* C1: whatever the class, the current agent and the policy state,
\* get_next_agent over a non-empty mapping returns a key of that mapping.
C1_ReturnsAvailableAgent ==
    NextAgentCalled => last.result \in keys(last.available_agents)

\* C2: delegate_to_agent ends in one of three ways: Unsupported when the bound
\* mapping has fewer than two agents; AgentNotFound when it has two or more and
\* none has the id; otherwise it succeeds, and end_turn is true and next_agent
\* is the available agent with that id.
C2_DelegateOutcomes ==
    last.op = "delegate_to_agent" =>
        LET av == last.available_agents
            matches == {a \in keys(av) : id(a) = last.arg}
        IN /\ Cardinality(keys(av)) < 2 => last.result = "Unsupported"
           /\ (Cardinality(keys(av)) >= 2 /\ matches = {}) =>
                  last.result = "AgentNotFound"
           /\ (Cardinality(keys(av)) >= 2 /\ matches # {}) =>
                  /\ last.result = "Delegated"
                  /\ end_turn = TRUE
                  /\ next_agent \in matches

\* C2 witness: a delegation to B succeeded
C2_Delegated ==
    /\ last.op = "delegate_to_agent"
    /\ last.result = "Delegated"
    /\ last.arg = id("B")
    /\ next_agent = "B"

\* C3: an end-turn invocation sets end_turn, keeps next_agent as it was, and a
\* second invocation right after it changes neither field.
C3_EndTurnFrame ==
    [][last'.op = "end_turn" =>
          /\ end_turn' = TRUE
          /\ next_agent' = next_agent
          /\ (last.op = "end_turn" => UNCHANGED policy)]_vars

\* C3 witness: the turn was ended with end-turn while a delegation target is set
C3_EndTurnKeepsDelegation ==
    last.op = "end_turn" /\ end_turn /\ next_agent \in Agents

\* C4: begin_turn leaves end_turn false and next_agent unset; a step that
\* changes either field is a begin_turn or a control tool's; get_tools,
\* get_next_agent, should_end_turn and should_end_session change neither.
C4_OnlyBeginTurnAndTools ==
    [][/\ last'.op = "begin_turn" => (end_turn' = FALSE /\ next_agent' = None)
       /\ policy' # policy =>
              last'.op \in {"begin_turn", "end_turn", "delegate_to_agent"}
       /\ last'.op \in {"get_tools", "get_next_agent", "should_end_turn",
                        "should_end_session"} => UNCHANGED policy]_vars

\* C4 witness: a later turn has begun, after a turn that a control tool ended
C4_SecondTurnBegun ==
    /\ last.op = "begin_turn"
    /\ Len(actors) >= 2
    /\ end_turn = FALSE
    /\ next_agent = None

\* the agents met when get_next_agent's result is fed back as the current agent
RECURSIVE FedBack(_, _, _)
FedBack(av, cur, n) ==
    IF n = 0 THEN <<>>
    ELSE LET r == RoundRobin_get_next_agent(cur, av)
         IN <<r>> \o FedBack(av, r, n - 1)

\* C5: RoundRobin returns the entry after the current agent's, the first entry
\* after the last one's and for a current agent that is no key; feeding the
\* result back, N turns over a mapping of N agents meet every agent once.
C5_RoundRobinCycles ==
    (variant = "RoundRobin" /\ NextAgentCalled) =>
        LET av == last.available_agents
            n == Len(av)
            turns == FedBack(av, last.cur, 2 * n)
        IN /\ last.cur \notin keys(av) => last.result = av[1]
           /\ \A i \in 1..n :
                 av[i] = last.cur =>
                     last.result = av[IF i = n THEN 1 ELSE i + 1]
           /\ turns[1] = last.result
           /\ \A k \in 1..(n + 1) :
                 /\ {turns[j] : j \in k..(k + n - 1)} = keys(av)
                 /\ \A i, j \in k..(k + n - 1) : i # j => turns[i] # turns[j]

\* C5 witness: from the last of three agents RoundRobin wraps to the first
C5_Wrapped ==
    /\ variant = "RoundRobin"
    /\ NextAgentCalled
    /\ Len(last.available_agents) = 3
    /\ last.cur = last.available_agents[3]
    /\ last.result = last.available_agents[1]

\* C6: MostBusy returns an agent with the most pending tasks of the mapping,
\* the first such agent in iteration order; nothing else decides the result.
C6_MostBusyFirstMax ==
    (variant = "MostBusy" /\ NextAgentCalled) =>
        LET av == last.available_agents
        IN \E i \in 1..Len(av) :
              /\ last.result = av[i]
              /\ \A j \in 1..Len(av) : pending[av[j]] <= pending[av[i]]
              /\ \A j \in 1..(i - 1) : pending[av[j]] < pending[av[i]]

\* C6 witness: two agents tie for the most tasks behind a less busy first one,
\* while next_agent is set and the current agent is another one
C6_TieBehindFirst ==
    /\ variant = "MostBusy"
    /\ NextAgentCalled
    /\ Len(last.available_agents) = 3
    /\ pending[last.available_agents[1]] < pending[last.available_agents[2]]
    /\ pending[last.available_agents[2]] = pending[last.available_agents[3]]
    /\ last.result = last.available_agents[2]
    /\ next_agent = last.available_agents[3]
    /\ last.cur = last.available_agents[1]

\* C7: for Single, should_end_session answers as should_end_turn does at the
\* same instant; get_next_agent returns the current agent; under the turn loop
\* the turn in which the agent calls end-turn is the session's last.
C7_SingleEndsWithTurn ==
    variant = "Single" =>
        /\ last.op = "should_end_session" =>
               (last.result <=> should_end_turn(end_turn))
        /\ last.op = "get_next_agent" => last.result = last.cur
        /\ Len(actors) <= 1
        /\ phase = "TurnInProgress" => end_turn = FALSE
        /\ phase = "TurnEnded" => end_turn = TRUE
        /\ (phase = "Idle" => actors = <<>>)

\* C7 witness: a Single session ended on its agent's end-turn call
C7_SingleSessionEnded ==
    /\ variant = "Single"
    /\ phase = "SessionEnded"
    /\ last.op = "get_next_agent"
    /\ end_turn = TRUE

\* C8: Moderated returns the moderator after any other agent's turn; after the
\* moderator's turn it returns next_agent when that is set and a key of the
\* mapping, and the moderator otherwise.
C8_ModeratedNextAgent ==
    (variant = "Moderated" /\ last.op = "get_next_agent") =>
        /\ last.cur # moderator => last.result = moderator
        /\ last.cur = moderator =>
               last.result =
                   IF next_agent # None /\ next_agent \in keys(last.available_agents)
                   THEN next_agent
                   ELSE moderator

\* C8 witness: a non-moderator's turn returns the moderator although a
\* delegation to an available third agent is set
C8_BackToModerator ==
    /\ variant = "Moderated"
    /\ last.op = "get_next_agent"
    /\ last.cur # moderator
    /\ next_agent \in keys(last.available_agents) \ {moderator, last.cur}
    /\ last.result = moderator

\* C9: Popcorn returns next_agent when it is set and a key of the mapping
\* passed to get_next_agent, and the first key of that mapping otherwise.
C9_PopcornNextAgent ==
    (variant = "Popcorn" /\ NextAgentCalled) =>
        last.result =
            IF next_agent # None /\ next_agent \in keys(last.available_agents)
            THEN next_agent
            ELSE last.available_agents[1]

\* C9 witness: the target was a key of the mapping the delegate tool was built
\* with, is no key of the mapping get_next_agent gets, and is not returned
C9_StaleDelegation ==
    /\ variant = "Popcorn"
    /\ NextAgentCalled
    /\ tools # <<>>
    /\ tools[1].kind = "delegate_to_agent"
    /\ next_agent \in keys(tools[1].available_agents)
    /\ next_agent \notin keys(last.available_agents)
    /\ last.result = last.available_agents[1]

\* C10: with Moderated(moderator = A) and A and B available, the turn after a
\* turn of B is A's, the turn after a turn in which A delegated to B is B's,
\* should_end_session is never true and only the external stop ends the session.
C10_ModeratedLoop ==
    variant = "Moderated" =>
        /\ last.op = "should_end_session" => last.result = FALSE
        /\ phase = "SessionEnded" => last.op = "stop"
        /\ (moderator = "A" /\ {"A", "B"} \subseteq keys(available)) =>
              /\ \A k \in 1..(Len(actors) - 1) :
                    actors[k] = "B" => actors[k + 1] = "A"
              /\ (phase = "Idle" /\ actors[Len(actors)] = "A" /\ next_agent = "B") =>
                     actor = "B"
              /\ (phase = "TurnInProgress" /\ Len(actors) >= 2
                    /\ actors[Len(actors) - 1] = "B") => actor = "A"

\* C10 witness: A delegated to B, B ended its turn, and the turn is A's again
C10_BackAndForth ==
    /\ variant = "Moderated"
    /\ moderator = "A"
    /\ {"A", "B"} \subseteq keys(available)
    /\ Len(actors) >= 3
    /\ actors[1] = "A"
    /\ actors[2] = "B"
    /\ actors[3] = "A"
    /\ phase = "TurnInProgress"

\* the tool list holds an invocation that sets end_turn
CanEndTurn ==
    \E i \in DOMAIN tools :
        \/ tools[i].kind = "end_turn"
        \/ /\ tools[i].kind = "delegate_to_agent"
           /\ \E agent_id \in AgentIds :
                 delegate_to_agent(tools[i].available_agents, agent_id,
                                   end_turn, next_agent).end_turn

\* C11: in every turn in progress, whatever the class and the non-empty
\* mapping, the tools get_tools gave the actor hold an invocation that sets
\* end_turn, so the actor can always end its turn.
C11_ActorCanEndTurn ==
    phase = "TurnInProgress" => CanEndTurn

\* C17: a delegate_to_agent call that ends Unsupported or AgentNotFound leaves
\* end_turn and next_agent as they were.
C17_FailedDelegationFrame ==
    [][(last'.op = "delegate_to_agent" /\ last'.result # "Delegated") =>
           UNCHANGED policy]_vars

\* C17 witness: in a turn a delegation to an unknown id failed, and the turn
\* goes on with no next agent recorded
C17_FailedInTurn ==
    /\ phase = "TurnInProgress"
    /\ last.op = "delegate_to_agent"
    /\ last.result = "AgentNotFound"
    /\ end_turn = FALSE
    /\ next_agent = None

\* the messages saved to a thread so far, in the order appended
Saved(thread_id) ==
    IF backend = "FileHistory"
    THEN [i \in 1..Len(history[thread_id]) |-> model_validate(history[thread_id][i])]
    ELSE history[thread_id]

\* the messages of a list later than after and earlier than before
Between(msgs, before, after) ==
    SelectSeq(msgs, LAMBDA m : IsBefore(m, before) /\ IsAfter(m, after))

\* the most recent messages of a list, up to limit of them
MostRecent(msgs, limit) ==
    IF limit = Absent \/ Len(msgs) <= limit[1] THEN msgs
    ELSE SubSeq(msgs, Len(msgs) - limit[1] + 1, Len(msgs))

\* the latest load_messages call returned, in chronological order, the most
\* recent messages of its thread between after and before, up to limit
LoadedTheWindow ==
    /\ loaded.result.raised = FALSE
    /\ loaded.result.value =
           MostRecent(Between(Saved(loaded.thread_id), loaded.before, loaded.after),
                      loaded.limit)

\* C14: a call of load_messages_to_token_limit returns, whatever the thread
\* holds (nothing, or a history that fits the budget whole).
C14_LoadToTokenLimitTerminates ==
    (loading.pc = "test") ~> (loading.pc = "returned")

\* C15: InMemoryHistory.load_messages returns, in chronological order, the most
\* recent messages of the thread later than after and earlier than before, as
\* many as there are up to limit, and none of another thread.
C15_InMemoryLoadsWindow ==
    (backend = "InMemoryHistory" /\ loaded.op = "load_messages") => LoadedTheWindow

\* C16: FileHistory.load_messages returns without error, in chronological
\* order, the most recent messages of the thread later than after and earlier
\* than before, as many as there are up to limit, all of them without a limit.
C16_FileLoadsWindow ==
    (backend = "FileHistory" /\ loaded.op = "load_messages") => LoadedTheWindow

\* C20: in load_messages_to_token_limit the accumulated messages, as handed to
\* trim_messages in every iteration, hold no message twice and are in
\* chronological order.
C20_WindowChronological ==
    loading.pc # "idle" =>
        \A i, j \in 1..Len(loading.messages) :
            i < j => loading.messages[i].timestamp < loading.messages[j].timestamp

\* C12: an AgentMessage compiles, for its own author, to one assistant message
\* with the body unchanged; for another agent (whatever its name) to nothing
\* when the text is empty and otherwise to one user message whose body holds
\* the author's name and id.
C12_AgentMessageCompiles ==
    derived.op = "AgentMessage.to_messages" =>
        LET event == derived.event
            out == derived.result
        IN /\ event.agent = derived.viewer =>
                 /\ Len(out) = 1
                 /\ out[1].role = "assistant"
                 /\ out[1].content = event.content
           /\ (event.agent # derived.viewer /\ event.content = "") => out = <<>>
           /\ (event.agent # derived.viewer /\ event.content # "") =>
                 /\ Len(out) = 1
                 /\ out[1].role = "user"
                 /\ out[1].content.prefix.agent_name = name(event.agent)
                 /\ out[1].content.prefix.agent_id = id(event.agent)

\* C13: a ToolResult compiles, for the agent that made the call, to one
\* tool-result message with the call's id and the result text; for another
\* agent to one user message that names the calling agent and the call, says
\* the tool failed exactly when the error flag is set and carries the result
\* text, and never to a tool-result message.
C13_ToolResultCompiles ==
    derived.op = "ToolResult.to_messages" =>
        LET event == derived.event
            out == derived.result
        IN /\ Len(out) = 1
           /\ event.agent = derived.viewer =>
                 /\ out[1].role = "tool"
                 /\ out[1].tool_call_id = event.tool_call.id
                 /\ out[1].content = event.str_result
           /\ event.agent # derived.viewer =>
                 /\ out[1].role = "user"
                 /\ out[1].content.prefix.agent_name = name(event.agent)
                 /\ out[1].content.prefix.agent_id = id(event.agent)
                 /\ out[1].content.prefix.tool_call = event.tool_call
                 /\ (out[1].content.prefix.outcome = " failed and") <=> event.is_error
                 /\ out[1].content.content = event.str_result

\* the chunks of the latest to_tool_call_deltas whose index has a snapshot call
MatchedChunks ==
    SelectSeq(derived.chunks, LAMBDA c : c.index + 1 \in DOMAIN derived.snapshot)

\* the chunks of that list whose snapshot call names a declared tool
ResolvedChunks(chunks) ==
    SelectSeq(chunks, LAMBDA c :
        \E i \in DOMAIN derived.tools :
            derived.tools[i] = derived.snapshot[c.index + 1].name)

\* the ToolCallDelta of each chunk of a list of matched chunks
DeltasOf(chunks) ==
    [i \in DOMAIN chunks |->
        [agent |-> derived.agent, delta |-> chunks[i],
         snapshot |-> derived.snapshot[chunks[i].index + 1],
         tool |-> derived.snapshot[chunks[i].index + 1].name,
         args |-> derived.snapshot[chunks[i].index + 1].args]]

\* C18: to_tool_call_deltas raises no error on a chunk whose index has no
\* snapshot call: it drops the chunk, and every chunk with a snapshot call
\* gives one ToolCallDelta with that call and its arguments, in chunk order
\* (stated where every snapshot call names a declared tool).
C18_MalformedDeltaDropped ==
    (/\ derived.op = "to_tool_call_deltas"
     /\ ResolvedChunks(MatchedChunks) = MatchedChunks) =>
        /\ derived.result.raised = FALSE
        /\ derived.result.value = DeltasOf(MatchedChunks)

\* C19: to_tool_calls and to_tool_call_deltas raise no error on a call whose
\* name no declared tool has: they omit it, and every derived ToolCall and
\* ToolCallDelta carries the tool of the call's name (for the deltas, stated
\* where every chunk has a snapshot call).
C19_UnresolvedToolDropped ==
    /\ derived.op = "to_tool_calls" =>
          /\ derived.result.raised = FALSE
          /\ derived.result.value =
                 LET kept == SelectSeq(derived.calls, LAMBDA c :
                                 \E i \in DOMAIN derived.tools : derived.tools[i] = c.name)
                 IN [i \in DOMAIN kept |->
                        [agent |-> derived.agent, tool_call |-> kept[i],
                         tool |-> kept[i].name, args |-> kept[i].args]]
    /\ (derived.op = "to_tool_call_deltas" /\ MatchedChunks = derived.chunks) =>
          /\ derived.result.raised = FALSE
          /\ derived.result.value = DeltasOf(ResolvedChunks(derived.chunks))

====
